---- MODULE Spec2Model ----
(***************************************************************************)
(* Model of korry8911/surreal:                                             *)
(*   surreal/distributed/ps/torch_broadcaster.py  TorchBroadcaster         *)
(*   surreal/main/run_cartpole_eval.py            the eval loop            *)
(*   surreal/model/ppo_net.py                     DiagGauss, PPOModel      *)
(* Four specifications share the module: Spec (broadcaster, channel,       *)
(* subscribers and the eval loop), SpecModel (two PPOModel instances),     *)
(* SpecRollout (a single-step recurrent rollout on one PPOModel) and       *)
(* SpecGauss (the DiagGauss functions on bounded probability records).     *)
(***************************************************************************)
EXTENDS Integers, Sequences, FiniteSets, TLC

(* ------------------------------ bounds -------------------------------- *)
MaxBroadcasts == 2
MaxParam == 1
MaxMsg == 2
MaxFreePulls == 1
MaxEnvSteps == 2

VARIABLES
    \* --- broadcaster / channel / subscribers / eval loop (Spec) ---
    chan,        \* latest payload stored under the broadcaster name
    bpc,         \* position of the publisher inside TorchBroadcaster.broadcast
    bnet,        \* argument net of the running broadcast call
    bmsg,        \* argument message of the running broadcast call
    binary,      \* local variable binary of the running broadcast call
    bres,        \* outcome of the last finished call: "none", "ok", "raised"
    debug,       \* self._debug (the constructor's default)
    nlog,        \* number of debug lines printed
    ncalls,      \* history: broadcast calls made
    nserialize,  \* history: calls of parameters_to_binary
    completed,   \* history: the (binary, message) pair of the last completed broadcast
    npub,        \* history: broadcasts completed
    nassert,     \* history: assert_type checks made
    local,       \* local[s]: parameters of subscriber s's local model
    obtained,    \* obtained[s]: payload subscriber s got in its last pull
    localSeq,    \* history: number of completed broadcasts at s's last pull
    npulls,      \* history: pulls made by s
    epc,         \* position of the eval loop
    nsteps,      \* history: env.step calls
    nended,      \* history: env.step calls that returned done=True
    nresets,     \* history: env.reset calls
    actedWith,   \* parameters the last action was computed with
    actedSeq,    \* history: localSeq of the agent when the last action was computed
    seqAtDone,   \* history: completed broadcasts when the last episode ended
    \* --- two PPOModel instances (SpecModel) ---
    cfg,         \* constructor arguments use_z_filter, rnn_config.if_rnn_policy
    fields,      \* fields[m][part]: the tensor model m holds as part (0: None)
    store,       \* store[r]: the value of tensor r
    ret,         \* the last PPOModel call: operation, arguments, outcome
    cells,       \* the rollout loop's recurrent state (hidden, cell)
    nroll,       \* history: single-step calls made by the rollout loop
    peakGraph,   \* history: steps of computation history alive in the last call
    \* --- DiagGauss (SpecGauss) ---
    gd,          \* self.d, the action dimension
    gprob,       \* the probability record passed in
    gop,         \* the DiagGauss method applied last
    gres         \* what it returned

sysVars == <<chan, bpc, bnet, bmsg, binary, bres, debug, nlog, ncalls,
             nserialize, completed, npub, nassert, local,
             obtained, localSeq, npulls, epc, nsteps, nended, nresets,
             actedWith, actedSeq, seqAtDone>>

modelVars == <<cfg, fields, store, ret, cells, nroll, peakGraph>>

gaussVars == <<gd, gprob, gop, gres>>

vars == <<sysVars, modelVars, gaussVars>>

\* what the steps of one component leave alone
notSys == <<modelVars, gaussVars>>
notModel == <<sysVars, gaussVars>>
notGauss == <<sysVars, modelVars>>

(* ------------------------- channel and payloads ----------------------- *)
Agent == "agent"
Subs == {Agent, "actor2"}
Other2(s) == IF s = Agent THEN "actor2" ELSE Agent

Payload(bin, msg) == [binary |-> bin, message |-> msg]
NoPayload == Payload(<<>>, 0)

\* U.Module.parameters_to_binary: the parameter set written as two digits
ParametersToBinary(p) == <<p \div 2, p % 2>>
\* the receiving side's binary_to_parameters
BinaryToParameters(b) == IF Len(b) = 2 THEN b[1] * 2 + b[2] ELSE 0 - 1

\* U.assert_type(net, U.Module)
IsModule(net) == net.isModule

Nets == [isModule : BOOLEAN, params : 0..MaxParam]
Messages == 1..MaxMsg

\* Broadcaster.broadcast(binary, message): one write of the pair under the name
SuperBroadcast(bin, msg) == Payload(bin, msg)

(* ------------------------ TorchBroadcaster.broadcast ------------------ *)
subVars == <<local, obtained, localSeq, npulls>>
evalVars == <<epc, nsteps, nended, nresets, actedWith, actedSeq, seqAtDone>>

\* the call's locals before a call and after its return
NoNet == [isModule |-> TRUE, params |-> 0]

BroadcastCall(net, msg) ==
    /\ bpc = "idle"
    /\ ncalls < MaxBroadcasts
    /\ bpc' = "assert"
    /\ bnet' = net
    /\ bmsg' = msg
    /\ binary' = <<>>
    /\ bres' = "none"
    /\ ncalls' = ncalls + 1
    /\ UNCHANGED <<chan, debug, nlog, nassert, nserialize, completed, npub, subVars,
                   evalVars>>
    /\ UNCHANGED notSys

BroadcastAssertType_NoCheck ==
    /\ bpc = "assert"
    /\ bpc' = "serialize"
    /\ nassert' = nassert + 1
    /\ UNCHANGED <<chan, bnet, bmsg, binary, bres, debug, nlog, ncalls,
                   nserialize, completed, npub, subVars, evalVars>>
    /\ UNCHANGED notSys

BroadcastAssertType ==
    /\ bpc = "assert"
    /\ IF IsModule(bnet)
       THEN /\ bpc' = "serialize"
            /\ UNCHANGED <<bnet, bmsg, bres>>
       ELSE /\ bpc' = "idle"
            /\ bres' = "raised"
            /\ bnet' = NoNet
            /\ bmsg' = 0
    /\ nassert' = nassert + 1
    /\ UNCHANGED <<chan, binary, debug, nlog, ncalls, nserialize, completed, npub, subVars, evalVars>>
    /\ UNCHANGED notSys

BroadcastSerialize_Partial ==
    /\ bpc = "serialize"
    /\ binary' = SubSeq(ParametersToBinary(bnet.params), 1, 1)
    /\ nserialize' = nserialize + 1
    /\ bpc' = "publish"
    /\ UNCHANGED <<chan, bnet, bmsg, bres, debug, nlog, ncalls, nassert,
                   completed, npub, subVars, evalVars>>
    /\ UNCHANGED notSys

BroadcastSerialize ==
    /\ bpc = "serialize"
    /\ binary' = ParametersToBinary(bnet.params)
    /\ nserialize' = nserialize + 1
    /\ bpc' = "publish"
    /\ UNCHANGED <<chan, bnet, bmsg, bres, debug, nlog, ncalls, nassert,
                   completed, npub, subVars, evalVars>>
    /\ UNCHANGED notSys

BroadcastPublish_KeepFirst ==
    /\ bpc = "publish"
    /\ nlog' = IF debug THEN nlog + 1 ELSE nlog
    /\ chan' = IF chan = NoPayload THEN SuperBroadcast(binary, bmsg) ELSE chan
    /\ completed' = Payload(binary, bmsg)
    /\ npub' = npub + 1
    /\ bpc' = "idle"
    /\ bres' = "ok"
    /\ bnet' = NoNet
    /\ bmsg' = 0
    /\ binary' = <<>>
    /\ UNCHANGED <<debug, ncalls, nassert, nserialize, subVars,
                   evalVars>>
    /\ UNCHANGED notSys

BroadcastPublish ==
    /\ bpc = "publish"
    /\ nlog' = IF debug THEN nlog + 1 ELSE nlog
    /\ chan' = SuperBroadcast(binary, bmsg)
    /\ completed' = Payload(binary, bmsg)
    /\ npub' = npub + 1
    /\ bpc' = "idle"
    /\ bres' = "ok"
    /\ bnet' = NoNet
    /\ bmsg' = 0
    /\ binary' = <<>>
    /\ UNCHANGED <<debug, ncalls, nassert, nserialize, subVars,
                   evalVars>>
    /\ UNCHANGED notSys

(* ----------------------- subscribers: pull_parameters ----------------- *)
\* pull_parameters of subscriber s: fetch the latest payload, load it
Pull(s) ==
    /\ obtained' = [obtained EXCEPT ![s] = chan]
    /\ local' = [local EXCEPT ![s] =
                    IF chan = NoPayload THEN @ ELSE BinaryToParameters(chan.binary)]
    /\ localSeq' = [localSeq EXCEPT ![s] = npub]
    /\ npulls' = [npulls EXCEPT ![s] = @ + 1]

\* an actor other than the eval loop's agent pulls whenever it likes
FreePull(s) ==
    /\ s # Agent
    /\ npulls[s] < MaxFreePulls
    /\ Pull(s)
    /\ UNCHANGED <<chan, bpc, bnet, bmsg, binary, bres, debug, nlog, ncalls,
                   nserialize, completed, npub, nassert, epc,
                   nsteps, nended, nresets, actedWith, actedSeq, seqAtDone>>
    /\ UNCHANGED notSys

(* ------------------------------ eval loop ----------------------------- *)
bcastVars == <<chan, bpc, bnet, bmsg, binary, bres, debug, nlog, ncalls,
               nassert, nserialize, completed, npub>>

EvalPullStart ==
    /\ epc = "pull0"
    /\ Pull(Agent)
    /\ epc' = "reset0"
    /\ UNCHANGED <<bcastVars, nsteps, nended, nresets, actedWith, actedSeq,
                   seqAtDone>>
    /\ UNCHANGED notSys

EvalResetStart ==
    /\ epc = "reset0"
    /\ nresets' = nresets + 1
    /\ epc' = "act"
    /\ UNCHANGED <<bcastVars, local, obtained, localSeq, npulls, nsteps, nended,
                   actedWith, actedSeq, seqAtDone>>
    /\ UNCHANGED notSys

EvalAct ==
    /\ epc = "act"
    /\ actedWith' = local[Agent]
    /\ actedSeq' = localSeq[Agent]
    /\ epc' = "step"
    /\ UNCHANGED <<bcastVars, local, obtained, localSeq, npulls, nsteps, nended,
                   nresets, seqAtDone>>
    /\ UNCHANGED notSys

EvalStep_NoPull(done) ==
    /\ epc = "step"
    /\ nsteps < MaxEnvSteps
    /\ nsteps' = nsteps + 1
    /\ IF done
       THEN /\ nended' = nended + 1
            /\ seqAtDone' = npub
            /\ epc' = "reset"
       ELSE /\ epc' = "act"
            /\ UNCHANGED <<nended, seqAtDone>>
    /\ UNCHANGED <<bcastVars, local, obtained, localSeq, npulls, nresets,
                   actedWith, actedSeq>>
    /\ UNCHANGED notSys

EvalStep(done) ==
    /\ epc = "step"
    /\ nsteps < MaxEnvSteps
    /\ nsteps' = nsteps + 1
    /\ IF done
       THEN /\ nended' = nended + 1
            /\ seqAtDone' = npub
            /\ epc' = "pull"
       ELSE /\ epc' = "act"
            /\ UNCHANGED <<nended, seqAtDone>>
    /\ UNCHANGED <<bcastVars, local, obtained, localSeq, npulls, nresets,
                   actedWith, actedSeq>>
    /\ UNCHANGED notSys

EvalPull ==
    /\ epc = "pull"
    /\ Pull(Agent)
    /\ epc' = "reset"
    /\ UNCHANGED <<bcastVars, nsteps, nended, nresets, actedWith, actedSeq,
                   seqAtDone>>
    /\ UNCHANGED notSys

EvalReset ==
    /\ epc = "reset"
    /\ nresets' = nresets + 1
    /\ epc' = "act"
    /\ UNCHANGED <<bcastVars, local, obtained, localSeq, npulls, nsteps, nended,
                   actedWith, actedSeq, seqAtDone>>
    /\ UNCHANGED notSys

(* ------------------------- system specification ---------------------- *)
SysInit ==
    /\ chan = NoPayload
    /\ bpc = "idle"
    /\ bnet = NoNet
    /\ bmsg = 0
    /\ binary = <<>>
    /\ bres = "none"
    /\ debug = FALSE
    /\ nlog = 0
    /\ ncalls = 0
    /\ nserialize = 0
    /\ completed = NoPayload
    /\ npub = 0
    /\ nassert = 0
    /\ local = [s \in Subs |-> 0]
    /\ obtained = [s \in Subs |-> NoPayload]
    /\ localSeq = [s \in Subs |-> 0]
    /\ npulls = [s \in Subs |-> 0]
    /\ epc = "pull0"
    /\ nsteps = 0
    /\ nended = 0
    /\ nresets = 0
    /\ actedWith = 0
    /\ actedSeq = 0
    /\ seqAtDone = 0

(* ------------------------------ PPOModel ------------------------------ *)
MaxVal == 1
MaxObs == 2
MaxStat == 1
MaxRollout == 3

Models == {"A", "B"}
Other(m) == IF m = "A" THEN "B" ELSE "A"
ParamVals == 0..MaxVal
Obs == 1..MaxObs
ObsDims == {2, 3}
Refs == 1..8

\* PPOModel.__init__: the tensors a model owns; rnn_stem is one tensor, handed
\* to the actor and the critic networks as well (0 stands for None / no attribute)
Construct(c, base) ==
    [actor  |-> base + 1,
     critic |-> base + 2,
     stem   |-> IF c.if_rnn_policy THEN base + 3 ELSE 0,
     zf     |-> IF c.use_z_filter THEN base + 4 ELSE 0]

\* keys of PPO_ActorNetwork.state_dict(): its head and the stem it was given
ActorStateDict(f, m) == {f[m].actor} \cup ({f[m].stem} \ {0})
\* keys of PPO_CriticNetwork.state_dict(): its head and the stem it was given
CriticStateDict(f, m) == {f[m].critic} \cup ({f[m].stem} \ {0})

\* the tensor of src that corresponds to tensor r of dst
Counterpart(f, dst, src, r) ==
    IF r = f[dst].actor THEN f[src].actor
    ELSE IF r = f[dst].critic THEN f[src].critic
    ELSE IF r = f[dst].stem THEN f[src].stem
    ELSE f[src].zf

\* module.load_state_dict(other.state_dict()): copy values, tensor by tensor
LoadStateDict(f, st, dst, src, keys) ==
    [r \in Refs |-> IF r \in keys THEN st[Counterpart(f, dst, src, r)] ELSE st[r]]

\* ZFilter.forward: normalise by the running statistic
ZForward(stat, x) == x - stat
\* ZFilter.z_update: fold the observation into the running statistic
ZUpdateStat(stat, x) == stat + x

NoCells == [isNone |-> TRUE, h |-> 0, c |-> 0, graph |-> 0]
\* nn.LSTM call: output, and a new state whose history extends the input's
RnnStem(w, x, cin) ==
    [out   |-> w * x + cin.h,
     cells |-> [isNone |-> FALSE, h |-> w * x + cin.h, c |-> cin.c + x,
                graph |-> cin.graph + 1]]
\* (Variable(cells[0].data), Variable(cells[1].data))
Detach(c) == [c EXCEPT !.graph = 0]
\* PPO_ActorNetwork.forward
ActorNet(a, h) == a + h
\* PPO_CriticNetwork.forward
CriticNet(c, h) == c + 2 * h

\* what a PPOModel call was and how it ended (the value returned is left out)
Ret(op, m, ndimIn, err, ndimOut, stemCalled) ==
    [op |-> op, m |-> m, ndimIn |-> ndimIn, err |-> err,
     ndimOut |-> ndimOut, stemCalled |-> stemCalled]
Outcome(err, out, ndimOut, stemCalled) ==
    [err |-> err, out |-> out, ndimOut |-> ndimOut, stemCalled |-> stemCalled]

ZFiltered(f, st, m, x) ==
    IF cfg.use_z_filter THEN ZForward(st[f[m].zf], x) ELSE x

\* PPOModel.forward_actor(obs, cells)
FwdActor(f, st, m, x, ndim, cin) ==
    LET x1 == ZFiltered(f, st, m, x) IN
    IF cfg.if_rnn_policy
    THEN IF ndim # 3
         THEN Outcome("AssertionError", 0, 0, FALSE)
         ELSE Outcome("none",
                      ActorNet(st[f[m].actor], RnnStem(st[f[m].stem], x1, cin).out),
                      3, TRUE)
    ELSE Outcome("none", ActorNet(st[f[m].actor], x1), ndim, FALSE)

\* PPOModel.forward_critic(obs, cells): the set of outcomes; a stem called on
\* an input that is not 3-D fails inside the stem, fails in the final view, or
\* runs, depending on the torch build and the hidden size
FwdCritic(f, st, m, x, ndim, cin) ==
    LET x1 == ZFiltered(f, st, m, x) IN
    IF cfg.if_rnn_policy
    THEN LET v == CriticNet(st[f[m].critic], RnnStem(st[f[m].stem], x1, cin).out) IN
         IF ndim # 3
         THEN {Outcome("StemError", 0, 0, TRUE),
               Outcome("ViewError", 0, 0, TRUE),
               Outcome("none", v, 3, TRUE)}
         ELSE {Outcome("none", v, 3, TRUE)}
    ELSE {Outcome("none", CriticNet(st[f[m].critic], x1), ndim, FALSE)}

ExposeCells_NoDetach(f, st, m, x, cin) ==
    LET x1 == ZFiltered(f, st, m, x) IN
    IF cfg.if_rnn_policy
    THEN LET r == RnnStem(st[f[m].stem], x1, cin) IN
         [action |-> ActorNet(st[f[m].actor], r.out),
          cells  |-> r.cells,
          peak   |-> r.cells.graph]
    ELSE [action |-> ActorNet(st[f[m].actor], x1), cells |-> cin, peak |-> cin.graph]

\* PPOModel.forward_actor_expose_cells(obs, cells)
ExposeCells(f, st, m, x, cin) ==
    LET x1 == ZFiltered(f, st, m, x) IN
    IF cfg.if_rnn_policy
    THEN LET r == RnnStem(st[f[m].stem], x1, cin) IN
         [action |-> ActorNet(st[f[m].actor], r.out),
          cells  |-> Detach(r.cells),
          peak   |-> r.cells.graph]
    ELSE [action |-> ActorNet(st[f[m].actor], x1), cells |-> cin, peak |-> cin.graph]

UpdateTargetParams_NoCritic(dst, src) ==
    /\ dst # src
    /\ LET s1 == LoadStateDict(fields, store, dst, src, ActorStateDict(fields, dst))
           s3 == IF cfg.use_z_filter
                 THEN LoadStateDict(fields, s1, dst, src, {fields[dst].zf})
                 ELSE s1
       IN store' = s3
    /\ ret' = Ret("update_target_params", dst, 0, "none", 0, FALSE)
    /\ UNCHANGED <<cfg, fields, cells, nroll, peakGraph>>
    /\ UNCHANGED notModel

\* PPOModel.update_target_params(net) with self = dst, net = src
UpdateTargetParams(dst, src) ==
    /\ dst # src
    /\ LET s1 == LoadStateDict(fields, store, dst, src, ActorStateDict(fields, dst))
           s2 == LoadStateDict(fields, s1, dst, src, CriticStateDict(fields, dst))
           s3 == IF cfg.use_z_filter
                 THEN LoadStateDict(fields, s2, dst, src, {fields[dst].zf})
                 ELSE s2
       IN store' = s3
    /\ ret' = Ret("update_target_params", dst, 0, "none", 0, FALSE)
    /\ UNCHANGED <<cfg, fields, cells, nroll, peakGraph>>
    /\ UNCHANGED notModel

\* PPOModel.update_target_z_filter(net)
UpdateTargetZFilter(dst, src) ==
    /\ dst # src
    /\ store' = IF cfg.use_z_filter
                THEN LoadStateDict(fields, store, dst, src, {fields[dst].zf})
                ELSE store
    /\ ret' = Ret("update_target_z_filter", dst, 0, "none", 0, FALSE)
    /\ UNCHANGED <<cfg, fields, cells, nroll, peakGraph>>
    /\ UNCHANGED notModel

ForwardActor(m, x, ndim) ==
    /\ LET o == FwdActor(fields, store, m, x, ndim, NoCells)
       IN ret' = Ret("forward_actor", m, ndim, o.err, o.ndimOut, o.stemCalled)
    /\ UNCHANGED <<cfg, fields, store, cells, nroll, peakGraph>>
    /\ UNCHANGED notModel

ForwardCritic(m, x, ndim) ==
    /\ \E o \in FwdCritic(fields, store, m, x, ndim, NoCells) :
          ret' = Ret("forward_critic", m, ndim, o.err, o.ndimOut, o.stemCalled)
    /\ UNCHANGED <<cfg, fields, store, cells, nroll, peakGraph>>
    /\ UNCHANGED notModel

\* one step of a rollout on model A: the returned state feeds the next call
RolloutStep(x) ==
    /\ nroll < MaxRollout
    /\ LET o == ExposeCells(fields, store, "A", x, cells)
       IN /\ cells' = o.cells
          /\ peakGraph' = o.peak
          /\ ret' = Ret("forward_actor_expose_cells", "A", 2, "none", 2,
                        cfg.if_rnn_policy)
    /\ nroll' = nroll + 1
    /\ UNCHANGED <<cfg, fields, store>>
    /\ UNCHANGED notModel

ZUpdate_Silent(m, x) ==
    /\ IF cfg.use_z_filter
       THEN /\ store[fields[m].zf] + x <= MaxStat
            /\ store' = [store EXCEPT ![fields[m].zf] = ZUpdateStat(@, x)]
       ELSE store' = store
    /\ ret' = Ret("z_update", m, 0, "none", 0, FALSE)
    /\ UNCHANGED <<cfg, fields, cells, nroll, peakGraph>>
    /\ UNCHANGED notModel

\* PPOModel.z_update(obs)
ZUpdate(m, x) ==
    /\ IF cfg.use_z_filter
       THEN /\ store[fields[m].zf] + x <= MaxStat
            /\ store' = [store EXCEPT ![fields[m].zf] = ZUpdateStat(@, x)]
            /\ ret' = Ret("z_update", m, 0, "none", 0, FALSE)
       ELSE /\ store' = store
            /\ ret' = Ret("z_update", m, 0, "ValueError", 0, FALSE)
    /\ UNCHANGED <<cfg, fields, cells, nroll, peakGraph>>
    /\ UNCHANGED notModel

\* the learner's optimizer writes a parameter tensor of model m in place
OptimStep(m, part, v) ==
    /\ fields[m][part] # 0
    /\ store[fields[m][part]] # v
    /\ store' = [store EXCEPT ![fields[m][part]] = v]
    /\ ret' = Ret("optim_step", m, 0, "none", 0, FALSE)
    /\ UNCHANGED <<cfg, fields, cells, nroll, peakGraph>>
    /\ UNCHANGED notModel

Configs == [use_z_filter : BOOLEAN, if_rnn_policy : BOOLEAN]
NoRet == Ret("none", "A", 0, "none", 0, FALSE)

ModelIdle ==
    /\ cfg = [use_z_filter |-> FALSE, if_rnn_policy |-> FALSE]
    /\ fields = [m \in Models |-> Construct(cfg, IF m = "A" THEN 0 ELSE 4)]
    /\ store = [r \in Refs |-> 0]
    /\ ret = NoRet
    /\ cells = NoCells
    /\ nroll = 0
    /\ peakGraph = 0

ModelInit ==
    /\ cfg \in Configs
    /\ fields = [m \in Models |-> Construct(cfg, IF m = "A" THEN 0 ELSE 4)]
    /\ store \in {st \in [Refs -> ParamVals] :
                    \A r \in Refs :
                       (\A m \in Models :
                           r \notin {fields[m].actor, fields[m].critic, fields[m].stem})
                       => st[r] = 0}
    /\ ret = NoRet
    /\ cells = NoCells
    /\ nroll = 0
    /\ peakGraph = 0

(* ------------------------------ DiagGauss ----------------------------- *)
MaxD == 2
MaxBatch == 2
MaxTime == 2
MaxEntry == 1

RECURSIVE Pow2(_)
Pow2(e) == IF e = 0 THEN 1 ELSE 2 * Pow2(e - 1)
RECURSIVE Log2(_)
\* log of a power of two, in units of ln 2
Log2(n) == IF n <= 1 THEN 0 ELSE 1 + Log2(n \div 2)
RECURSIVE SumTo(_, _)
SumTo(f, n) == IF n = 0 THEN 0 ELSE f[n] + SumTo(f, n - 1)
RECURSIVE Prod(_)
Prod(sh) == IF sh = <<>> THEN 1 ELSE Head(sh) * Prod(Tail(sh))

\* a tensor: its shape and its entries in row-major order
Tensor(sh, fl, k) == [shape |-> sh, flat |-> fl, k |-> k]
\* tensor.view(-1, cols)
View2(t, cols) == Tensor(<<Len(t.flat) \div cols, cols>>, t.flat, t.k)

\* DiagGauss.maxprob(prob)
Maxprob(d, prob) ==
    IF Len(prob.shape) = 3
    THEN \* prob[:, :, self.d]: the entry at 0-based index d of every row
         LET n == prob.shape[1] * prob.shape[2]
             w == prob.shape[3]
         IN Tensor(<<prob.shape[1], prob.shape[2]>>,
                   [i \in 1..n |-> prob.flat[(i - 1) * w + d + 1]], 0)
    ELSE \* prob[:, :self.d]
         LET n == prob.shape[1]
             w == prob.shape[2]
         IN Tensor(<<n, d>>,
                   [i \in 1..(n * d) |->
                       prob.flat[((i - 1) \div d) * w + ((i - 1) % d) + 1]], 0)

\* DiagGauss.entropy(prob): row r is 0.5*ln2*flat[r] + 0.5*ln(2*pi*e)*k,
\* the entries of std being powers of two
Entropy(d, prob) ==
    LET p == IF Len(prob.shape) = 3 THEN View2(prob, 2 * d) ELSE prob
        n == p.shape[1]
        w == p.shape[2]
    IN Tensor(<<n>>,
              [r \in 1..n |->
                  SumTo([j \in 1..d |-> Log2(p.flat[(r - 1) * w + d + j])], d)],
              d)

GaussMaxprob ==
    /\ gres' = Maxprob(gd, gprob)
    /\ gop' = "maxprob"
    /\ UNCHANGED <<gd, gprob>>
    /\ UNCHANGED notGauss

GaussEntropy ==
    /\ gres' = Entropy(gd, gprob)
    /\ gop' = "entropy"
    /\ UNCHANGED <<gd, gprob>>
    /\ UNCHANGED notGauss

\* the shapes of a probability record: (batch, 2d) and (batch, time, 2d)
ProbShapes(d) ==
    {<<b, 2 * d>> : b \in 1..MaxBatch}
    \cup {<<b, t, 2 * d>> : b \in 1..MaxBatch, t \in 1..MaxTime}

\* the record [mean(d), std(d)] per row that code stands for: std > 0
ProbRecord(d, sh, code) ==
    Tensor(sh,
           [i \in 1..Len(code) |->
               IF (i - 1) % (2 * d) < d THEN code[i] ELSE Pow2(code[i])],
           0)

NoTensor == Tensor(<<>>, <<>>, 0)

GaussIdle ==
    /\ gd = 1
    /\ gprob = NoTensor
    /\ gop = "none"
    /\ gres = NoTensor

GaussInit ==
    /\ gd \in 1..MaxD
    /\ \E sh \in ProbShapes(gd) :
          \E code \in [1..Prod(sh) -> 0..MaxEntry] :
             gprob = ProbRecord(gd, sh, code)
    /\ gop = "none"
    /\ gres = NoTensor

(* ---------------------------- specifications -------------------------- *)
Init == SysInit /\ ModelIdle /\ GaussIdle

Next ==
    \/ \E net \in Nets, msg \in Messages : BroadcastCall(net, msg)
    \/ BroadcastAssertType
    \/ BroadcastSerialize
    \/ BroadcastPublish
    \/ \E s \in Subs : FreePull(s)
    \/ EvalPullStart
    \/ EvalResetStart
    \/ EvalAct
    \/ \E done \in BOOLEAN : EvalStep(done)
    \/ EvalPull
    \/ EvalReset

Spec == Init /\ [][Next]_vars

InitModel == SysInit /\ ModelInit /\ GaussIdle

NextModel ==
    \/ \E dst \in Models : UpdateTargetParams(dst, Other(dst))
    \/ \E dst \in Models : UpdateTargetZFilter(dst, Other(dst))
    \/ \E m \in Models, x \in Obs, nd \in ObsDims : ForwardActor(m, x, nd)
    \/ \E m \in Models, x \in Obs, nd \in ObsDims : ForwardCritic(m, x, nd)
    \/ \E m \in Models, x \in Obs : ZUpdate(m, x)
    \/ \E m \in Models, part \in {"actor", "critic", "stem"}, v \in ParamVals :
          OptimStep(m, part, v)

SpecModel == InitModel /\ [][NextModel]_vars

NextRollout == \E x \in Obs : RolloutStep(x)

SpecRollout == InitModel /\ [][NextRollout]_vars

InitGauss == SysInit /\ ModelIdle /\ GaussInit

NextGauss ==
    \/ GaussMaxprob
    \/ GaussEntropy

SpecGauss == InitGauss /\ [][NextGauss]_vars

(* ------------------------------- claims ------------------------------- *)

\* C1: the eval loop pulls once before the first reset and once after every
\* step that returns done=True, before the next reset and the next action; so
\* whenever an action is computed the pulls and the resets both number one more
\* than the episodes ended (no pull follows a done=False step), and the action
\* uses parameters no older than the channel held when the last episode ended.
C1_PullBeforeEveryEpisode ==
    /\ epc = "pull0" => npulls[Agent] = 0 /\ nresets = 0 /\ nsteps = 0
    /\ epc = "reset0" => npulls[Agent] = 1 /\ nresets = 0 /\ nsteps = 0
    /\ epc \in {"act", "step"} =>
          npulls[Agent] = nended + 1 /\ nresets = nended + 1
    /\ epc = "pull" => npulls[Agent] = nended /\ nresets = nended
    /\ epc = "reset" => npulls[Agent] = nended + 1 /\ nresets = nended
    /\ epc = "step" =>
          /\ actedWith = local[Agent]
          /\ actedSeq = localSeq[Agent]
          /\ actedSeq >= seqAtDone

C1_Witness ==
    /\ epc = "step"
    /\ nended >= 1
    /\ nsteps >= 2
    /\ actedSeq >= 1
    /\ actedSeq = seqAtDone + 1
    /\ obtained[Agent] # NoPayload
    /\ actedWith = BinaryToParameters(obtained[Agent].binary)
    /\ actedWith # 0

\* C2: a pull obtains exactly the pair of the most recent completed broadcast
\* (one payload, never an earlier one, also for a subscriber whose first pull
\* comes after several broadcasts) and loads it; a step in which a subscriber
\* does not pull leaves its local parameters as they were.
C2_LatestOnly ==
    [][\A s \in Subs :
          IF npulls'[s] # npulls[s]
          THEN /\ obtained'[s] = completed
               /\ completed # NoPayload =>
                     local'[s] = BinaryToParameters(completed.binary)
          ELSE /\ local'[s] = local[s]
               /\ obtained'[s] = obtained[s]]_vars

C2_Witness ==
    \E s \in Subs :
       /\ npulls[s] = 1
       /\ localSeq[s] = 2
       /\ npub = 2
       /\ obtained[s] = completed
       /\ local[s] = BinaryToParameters(completed.binary)
       /\ local[s] # 0
       /\ npulls[Other2(s)] = 0
       /\ local[Other2(s)] = 0

\* C3: broadcast checks the type of net first: a call with a net that is not a
\* Module gets no further than the check, and the step that leaves the check
\* ends the call with the raise, parameters_to_binary not called, nothing
\* published and the channel's payload as it was; a call makes one check.
C3_TypeCheckFirst ==
    /\ [](/\ bpc \in {"serialize", "publish"} => IsModule(bnet)
          /\ nassert = IF bpc = "assert" THEN ncalls - 1 ELSE ncalls)
    /\ [][(bpc = "assert" /\ ~IsModule(bnet) /\ bpc' # "assert") =>
             /\ bpc' = "idle"
             /\ bres' = "raised"
             /\ binary' = <<>>
             /\ nserialize' = nserialize
             /\ chan' = chan
             /\ npub' = npub
             /\ completed' = completed
             /\ ncalls' = ncalls]_vars

C3_Witness ==
    /\ bpc = "idle"
    /\ bres = "raised"
    /\ ncalls = 2
    /\ nassert = 2
    /\ nserialize = 1
    /\ chan # NoPayload
    /\ chan = completed

ModelVals(f, st, m) == [part \in {"actor", "critic", "stem", "zf"} |->
                           IF f[m][part] = 0 THEN 0 ELSE st[f[m][part]]]

\* C4: z_update on a model built with use_z_filter=False raises the error and
\* changes nothing; with use_z_filter=True it does not raise it and changes
\* only the observation filter's statistics of that model.
C4_ZUpdateGuard ==
    [][(ret'.op = "z_update") =>
          IF cfg.use_z_filter
          THEN /\ ret'.err = "none"
               /\ \A r \in Refs : r # fields[ret'.m].zf => store'[r] = store[r]
               /\ store'[fields[ret'.m].zf] # store[fields[ret'.m].zf]
               /\ <<cfg, fields, cells>>' = <<cfg, fields, cells>>
          ELSE /\ ret'.err = "ValueError"
               /\ <<cfg, fields, store, cells>>' = <<cfg, fields, store, cells>>]_vars

C4_Witness ==
    /\ ret.op = "z_update"
    /\ ret.err = "ValueError"
    /\ ~cfg.use_z_filter
    /\ \E m \in Models : store[fields[m].actor] # 0

MeanSlice(d, p) ==
    [i \in 1..(p.shape[1] * d) |->
        p.flat[((i - 1) \div d) * p.shape[2] + ((i - 1) % d) + 1]]

\* C6: maxprob returns the first d entries (the mean) of every row, for a 2-D
\* record and, with time flattened into batch, for a 3-D record.
C6_MaxprobIsMean ==
    gop = "maxprob" =>
        LET p == IF Len(gprob.shape) = 3 THEN View2(gprob, 2 * gd) ELSE gprob
        IN /\ Len(gres.flat) = p.shape[1] * gd
           /\ gres.flat = MeanSlice(gd, p)

\* C7: in recurrent mode forward_actor and forward_critic both reject an
\* observation that is not 3-D with an assertion error, the stem not run.
C7_RejectNon3D ==
    (/\ cfg.if_rnn_policy
     /\ ret.op \in {"forward_actor", "forward_critic"}
     /\ ret.ndimIn # 3) =>
        /\ ret.err = "AssertionError"
        /\ ~ret.stemCalled

\* C8: entropy is the sum over the d dimensions of 0.5*log(std^2) +
\* 0.5*log(2*pi*e): in units of 0.5*ln 2 the std part of row r is the sum of
\* Log2(std^2), and the constant is counted d times.
C8_EntropyFormula ==
    gop = "entropy" =>
        LET p == IF Len(gprob.shape) = 3 THEN View2(gprob, 2 * gd) ELSE gprob
        IN /\ gres.k = gd
           /\ \A r \in 1..p.shape[1] :
                 gres.flat[r] =
                    SumTo([j \in 1..gd |->
                             Log2(p.flat[(r - 1) * 2 * gd + gd + j]
                                  * p.flat[(r - 1) * 2 * gd + gd + j])], gd)

\* C9: in recurrent mode the state forward_actor_expose_cells returns carries
\* no computation history, so however many steps the rollout has taken, the
\* history alive in a call is that of the one step being computed.
C9_StateDetached ==
    cfg.if_rnn_policy =>
        /\ cells.graph = 0
        /\ peakGraph <= 1
        /\ (nroll > 0 => ~cells.isNone /\ peakGraph = 1)

C9_Witness ==
    /\ cfg.if_rnn_policy
    /\ nroll = MaxRollout
    /\ ~cells.isNone
    /\ cells.h > 0
    /\ peakGraph = 1

\* C10: whatever the interleaving of the publisher and the pulling
\* subscribers, the channel's payload changes only in the publish step of a
\* broadcast call, to the complete (binary, message) pair of that one call,
\* and a payload a subscriber obtains is the channel's payload as it stands.
C10_CompletePairs ==
    /\ [][chan' # chan =>
             /\ bpc = "publish"
             /\ chan' = Payload(ParametersToBinary(bnet.params), bmsg)
             /\ Len(chan'.binary) = 2]_vars
    /\ [][\A s \in Subs : npulls'[s] # npulls[s] => obtained'[s] = chan]_vars
    /\ [](\A s \in Subs : obtained[s] # NoPayload => Len(obtained[s].binary) = 2)

C10_Witness ==
    /\ bpc = "publish"
    /\ \E s \in Subs :
          /\ obtained[s] # NoPayload
          /\ obtained[s] = chan
          /\ obtained[s].binary # binary
          /\ obtained[s].message # bmsg

====
